---- MODULE Spec2Model ----
(***************************************************************************)
(* A model of the pigpio safe wrapper (src/src/lib.rs, src/src/error.rs).  *)
(*                                                                         *)
(* Two specifications share the state:                                     *)
(*   SpecInit  any number of PiGpio::init() calls by concurrent threads,   *)
(*             interleaved at their accesses to shared state (the          *)
(*             compare-and-swap on REF_COUNT, the native gpioInitialise    *)
(*             call, the rollback store), and drops of the handle;         *)
(*   SpecWave  the operations available through the one PiGpio handle and  *)
(*             the Wave handles borrowed from it, starting in the state    *)
(*             SpecInit reaches when init() has returned Ok. PiGpio is not *)
(*             Sync and Wave is neither Send nor Sync, so these calls are  *)
(*             serialised and each one is a single step;                   *)
(*   SpecCalls the calls of SpecWave that only pass arguments on and       *)
(*             translate a return code, with every argument and every      *)
(*             return code tried.                                          *)
(*                                                                         *)
(* The native library (crate pigpio_sys) is the environment: each native   *)
(* call returns a code chosen nondeterministically from the codes named    *)
(* below; the values of the PI_ constants are those of pigpio.h.           *)
(***************************************************************************)
EXTENDS Integers, Sequences, FiniteSets, TLC

\* ----------------------------------------------------------------- bounds
\* Threads that call PiGpio::init().
NumThreads == 2
\* init() calls made in one behaviour, over all threads.
MaxInitCalls == 4
\* Wave handles wave_create() constructs in one behaviour.
MaxWaveHandles == 3
\* Waveform identifiers the native library hands out: 0 .. MaxNativeWaves - 1.
MaxNativeWaves == 2

Threads == 1 .. NumThreads

\* ------------------------------------------------- native return codes
PI_INIT_FAILED == -1
PI_BAD_USER_GPIO == -2
PI_BAD_GPIO == -3
PI_BAD_MODE == -4
PI_BAD_WAVE_MODE == -33
PI_BAD_WAVE_BAUD == -35
PI_TOO_MANY_PULSES == -36
PI_TOO_MANY_CHARS == -37
PI_BAD_SER_OFFSET == -49
PI_BAD_WAVE_ID == -66
PI_TOO_MANY_CBS == -67
PI_TOO_MANY_OOL == -68
PI_EMPTY_WAVEFORM == -69
PI_NO_WAVEFORM_ID == -70
PI_BAD_DATABITS == -101
PI_BAD_STOPBITS == -102
PI_WAVE_MODE_ONE_SHOT_SYNC == 2
PI_WAVE_MODE_REPEAT_SYNC == 3

VARIABLES
    REF_COUNT,     \* the static AtomicUsize of PiGpio::init
    pc,            \* per thread: where it is inside init()
    result,        \* per thread: what its last init() call returned
    held,          \* per thread: the PiGpio values it owns
    ret,           \* per thread: what gpioInitialise returned to its last call (0: not called)
    ctx,           \* per thread: what had already happened when its call started
    started,       \* init() calls started so far
    issued,        \* init() calls that returned Ok(PiGpio)
    nativeInits,   \* gpioInitialise calls made so far
    nativeFails,   \* gpioInitialise calls that returned PI_INIT_FAILED
    dropped,       \* PiGpio values dropped so far
    aiSeen,        \* some init() call has returned AlreadyInitialized
    retryOpen,     \* the last init() to return failed natively, none started since
    nativeWaves,   \* native library: identifiers of the waveforms that exist
    waves,         \* every Wave constructed: its id, whether it is not yet dropped
    deleteLog,     \* the identifiers passed to gpioWaveDelete, in call order
    last           \* the last operation on a handle: arguments, native calls, result

initVars == <<REF_COUNT, pc, result, held, ret, ctx, started, issued, nativeInits,
              nativeFails, dropped, aiSeen, retryOpen>>
waveVars == <<nativeWaves, waves, deleteLog, last>>
vars == <<REF_COUNT, pc, result, held, ret, ctx, started, issued, nativeInits,
          nativeFails, dropped, aiSeen, retryOpen, nativeWaves, waves,
          deleteLog, last>>

\* ------------------------------------------------------------ PiGpio::init

\* AtomicUsize::compare_and_swap(current, new): one atomic step that stores
\* `new` if the value is `current`, and returns the previous value.
compare_and_swap_always_wins(value, current, new) ==
    [old |-> current, val |-> new]

compare_and_swap(value, current, new) ==
    [old |-> value, val |-> IF value = current THEN new ELSE value]

\* The codes gpioInitialise returns: PI_INIT_FAILED, or the version number of
\* the library.
InitCodes == {PI_INIT_FAILED, 79}

NoCtx == [afterOk |-> FALSE, afterDrop |-> FALSE, afterAI |-> FALSE,
          afterFail |-> FALSE]

\* A thread calls init(): the compare-and-swap, and for the loser the return
\* of Err(AlreadyInitialized), which touches no shared state.
init_cas(t) ==
    /\ pc[t] = "idle"
    /\ started < MaxInitCalls
    /\ LET r == compare_and_swap(REF_COUNT, 0, 1) IN
         /\ REF_COUNT' = r.val
         /\ IF r.old = 0
               THEN /\ pc' = [pc EXCEPT ![t] = "native"]
                    /\ result' = [result EXCEPT ![t] = "pending"]
                    /\ aiSeen' = aiSeen
               ELSE /\ pc' = pc
                    /\ result' = [result EXCEPT ![t] = "AlreadyInitialized"]
                    /\ aiSeen' = TRUE
    /\ ctx' = [ctx EXCEPT ![t] = [afterOk |-> issued >= 1,
                                  afterDrop |-> dropped >= 1,
                                  afterAI |-> aiSeen,
                                  afterFail |-> retryOpen]]
    /\ ret' = [ret EXCEPT ![t] = 0]
    /\ started' = started + 1
    /\ retryOpen' = FALSE
    /\ UNCHANGED <<held, issued, nativeInits, nativeFails, dropped>>
    /\ UNCHANGED waveVars

\* The winner's gpioInitialise call returns `code`; on success init() returns
\* Ok(PiGpio) and REF_COUNT stays 1.
init_gpioInitialise_resets_on_success(t, code) ==
    /\ pc[t] = "native"
    /\ nativeInits' = nativeInits + 1
    /\ ret' = [ret EXCEPT ![t] = code]
    /\ IF code # PI_INIT_FAILED
          THEN /\ pc' = [pc EXCEPT ![t] = "idle"]
               /\ result' = [result EXCEPT ![t] = "Ok"]
               /\ held' = [held EXCEPT ![t] = @ + 1]
               /\ issued' = issued + 1
               /\ REF_COUNT' = 0
               /\ UNCHANGED nativeFails
          ELSE /\ pc' = [pc EXCEPT ![t] = "rollback"]
               /\ nativeFails' = nativeFails + 1
               /\ UNCHANGED <<result, held, issued, REF_COUNT>>
    /\ UNCHANGED <<ctx, started, dropped, aiSeen, retryOpen>>
    /\ UNCHANGED waveVars

init_gpioInitialise(t, code) ==
    /\ pc[t] = "native"
    /\ nativeInits' = nativeInits + 1
    /\ ret' = [ret EXCEPT ![t] = code]
    /\ IF code # PI_INIT_FAILED
          THEN /\ pc' = [pc EXCEPT ![t] = "idle"]
               /\ result' = [result EXCEPT ![t] = "Ok"]
               /\ held' = [held EXCEPT ![t] = @ + 1]
               /\ issued' = issued + 1
               /\ UNCHANGED nativeFails
          ELSE /\ pc' = [pc EXCEPT ![t] = "rollback"]
               /\ nativeFails' = nativeFails + 1
               /\ UNCHANGED <<result, held, issued>>
    /\ UNCHANGED <<REF_COUNT, ctx, started, dropped, aiSeen, retryOpen>>
    /\ UNCHANGED waveVars

\* After PI_INIT_FAILED: REF_COUNT.store(0), then the return of
\* Err(PiGpioFailed), which touches no shared state.
init_rollback_without_store(t) ==
    /\ pc[t] = "rollback"
    /\ pc' = [pc EXCEPT ![t] = "idle"]
    /\ result' = [result EXCEPT ![t] = "PiGpioFailed"]
    /\ retryOpen' = TRUE
    /\ UNCHANGED <<REF_COUNT, held, ret, ctx, started, issued, nativeInits,
                   nativeFails, dropped, aiSeen>>
    /\ UNCHANGED waveVars

init_rollback(t) ==
    /\ pc[t] = "rollback"
    /\ REF_COUNT' = 0
    /\ pc' = [pc EXCEPT ![t] = "idle"]
    /\ result' = [result EXCEPT ![t] = "PiGpioFailed"]
    /\ retryOpen' = TRUE
    /\ UNCHANGED <<held, ret, ctx, started, issued, nativeInits, nativeFails,
                   dropped, aiSeen>>
    /\ UNCHANGED waveVars

\* The owner drops its PiGpio. The struct has no Drop impl: nothing is called
\* and REF_COUNT is not touched. A Wave borrows the PiGpio, so none is alive.
drop_PiGpio_releases_permit(t) ==
    /\ held[t] >= 1
    /\ \A h \in 1 .. Len(waves) : ~waves[h].live
    /\ held' = [held EXCEPT ![t] = @ - 1]
    /\ dropped' = dropped + 1
    /\ REF_COUNT' = 0
    /\ UNCHANGED <<pc, result, ret, ctx, started, issued, nativeInits,
                   nativeFails, aiSeen, retryOpen>>
    /\ UNCHANGED waveVars

drop_PiGpio(t) ==
    /\ held[t] >= 1
    /\ \A h \in 1 .. Len(waves) : ~waves[h].live
    /\ held' = [held EXCEPT ![t] = @ - 1]
    /\ dropped' = dropped + 1
    /\ UNCHANGED <<REF_COUNT, pc, result, ret, ctx, started, issued,
                   nativeInits, nativeFails, aiSeen, retryOpen>>
    /\ UNCHANGED waveVars

NoOp == [op |-> "none", args |-> <<>>, calls |-> <<>>, result |-> "none",
         handle |-> 0]

InitInit ==
    /\ REF_COUNT = 0
    /\ pc = [t \in Threads |-> "idle"]
    /\ result = [t \in Threads |-> "none"]
    /\ held = [t \in Threads |-> 0]
    /\ ret = [t \in Threads |-> 0]
    /\ ctx = [t \in Threads |-> NoCtx]
    /\ started = 0
    /\ issued = 0
    /\ nativeInits = 0
    /\ nativeFails = 0
    /\ dropped = 0
    /\ aiSeen = FALSE
    /\ retryOpen = FALSE
    /\ nativeWaves = {}
    /\ waves = <<>>
    /\ deleteLog = <<>>
    /\ last = NoOp

NextInit ==
    \/ \E t \in Threads : init_cas(t)
    \/ \E t \in Threads : \E code \in InitCodes : init_gpioInitialise(t, code)
    \/ \E t \in Threads : init_rollback(t)
    \/ \E t \in Threads : drop_PiGpio(t)

SpecInit == InitInit /\ [][NextInit]_vars

\* ------------------------------------------------------ integer conversions
\* TLC's integers are 32-bit signed, so a u32, u64 or usize value is kept as
\* two 16-bit limbs <<hi, lo>> standing for hi * 2^16 + lo; an i32 or u8
\* value is a plain integer.
Limb == 2 ^ 16

\* A small natural number as a limb pair.
Wide(n) == <<n \div Limb, n % Limb>>

\* a > b on limb pairs.
WideGt(a, b) == a[1] > b[1] \/ (a[1] = b[1] /\ a[2] > b[2])

\* u32::max_value(), and u64::from of it.
U32_MAX == <<Limb - 1, Limb - 1>>

\* `len as u64` of a usize, `u64::from` of a u32: the value is kept.
AsU64(w) == w

\* `len as u32` of a usize: the low 32 bits.
AsU32(w) == <<w[1] % Limb, w[2]>>

\* `id as u32` of an i32: two's complement, 2^32 + x for a negative x.
I32AsU32(x) ==
    IF x >= 0 THEN Wide(x)
    ELSE <<Limb - 1 - ((-x - 1) \div Limb), Limb - 1 - ((-x - 1) % Limb)>>

\* `pin.into()` of a u8 into a u32: zero extension.
U8IntoU32(b) == <<0, b % 256>>

\* --------------------------------------------------------- error taxonomy

Ok(v) == [ok |-> TRUE, err |-> "none", val |-> v]
Err(e) == [ok |-> FALSE, err |-> e, val |-> 0]

\* The match of PiGpio::set_mode.
SetMode_from_return_code(code) ==
    CASE code = PI_BAD_GPIO -> Err("InvalidPin")
      [] code = PI_BAD_MODE -> Err("InvalidMode")
      [] OTHER -> Ok(0)

BadSerial_from_return_code_swapped(code) ==
    CASE code = PI_BAD_USER_GPIO -> Err("InvalidPin")
      [] code = PI_BAD_WAVE_BAUD -> Err("InvalidBaud")
      [] code = PI_BAD_DATABITS -> Err("InvalidStopBits")
      [] code = PI_BAD_STOPBITS -> Err("InvalidDataBits")
      [] code = PI_TOO_MANY_CHARS -> Err("TooManyBytes")
      [] code = PI_BAD_SER_OFFSET -> Err("InvalidOffset")
      [] code = PI_TOO_MANY_PULSES -> Err("TooManyPulses")
      [] OTHER -> Ok(0)

BadSerial_from_return_code(code) ==
    CASE code = PI_BAD_USER_GPIO -> Err("InvalidPin")
      [] code = PI_BAD_WAVE_BAUD -> Err("InvalidBaud")
      [] code = PI_BAD_DATABITS -> Err("InvalidDataBits")
      [] code = PI_BAD_STOPBITS -> Err("InvalidStopBits")
      [] code = PI_TOO_MANY_CHARS -> Err("TooManyBytes")
      [] code = PI_BAD_SER_OFFSET -> Err("InvalidOffset")
      [] code = PI_TOO_MANY_PULSES -> Err("TooManyPulses")
      [] OTHER -> Ok(0)

WaveCreate_from_return_code(code) ==
    CASE code = PI_EMPTY_WAVEFORM -> Err("EmptyWaveform")
      [] code = PI_TOO_MANY_CBS -> Err("TooManyCbs")
      [] code = PI_TOO_MANY_OOL -> Err("TooManyOol")
      [] code = PI_NO_WAVEFORM_ID -> Err("NoWaveformId")
      [] OTHER -> Ok(code)

WaveSend_from_return_code(code) ==
    CASE code = PI_BAD_WAVE_ID -> Err("InvalidId")
      [] code = PI_BAD_WAVE_MODE -> Err("InvalidMode")
      [] OTHER -> Ok(0)

\* The text of a Result<(), E> or Result<Wave, E>.
Outcome(r) == IF r.ok THEN "Ok" ELSE r.err

\* ------------------------------------------------------ PinMode, WaveMode

PinModes == {"Input", "Output", "Alt0", "Alt1", "Alt2", "Alt3", "Alt4", "Alt5"}

\* `mode as u32` of a PinMode.
PinMode(mode) ==
    CASE mode = "Input" -> 0
      [] mode = "Output" -> 1
      [] mode = "Alt0" -> 4
      [] mode = "Alt1" -> 5
      [] mode = "Alt2" -> 6
      [] mode = "Alt3" -> 7
      [] mode = "Alt4" -> 3
      [] mode = "Alt5" -> 2

WaveModes == {"OneShot", "Repeat"}

\* WaveMode::sync.
sync(mode) ==
    CASE mode = "OneShot" -> PI_WAVE_MODE_ONE_SHOT_SYNC
      [] mode = "Repeat" -> PI_WAVE_MODE_REPEAT_SYNC

\* ------------------------------------------------------ the native library

\* The waveform identifiers gpioWaveCreate hands out.
NativeIds == {Wide(i) : i \in 0 .. MaxNativeWaves - 1}

\* A negative code that no match arm of the wrapper names, standing for every
\* such code: PI_NOT_INITIALISED, which every native entry point returns once
\* the library has been terminated.
UnlistedCode == -31

\* What gpioSetMode returns.
SetModeCodes == {0, PI_BAD_GPIO, PI_BAD_MODE}

\* What gpioWaveAddGeneric returns: the pulse count of the waveform so far, or
\* a negative code.
AddGenericCodes == {0, 7, PI_TOO_MANY_PULSES, UnlistedCode}

\* What gpioWaveAddSerial returns.
AddSerialCodes ==
    {0, 7, PI_BAD_USER_GPIO, PI_BAD_WAVE_BAUD, PI_BAD_DATABITS, PI_BAD_STOPBITS,
     PI_TOO_MANY_CHARS, PI_BAD_SER_OFFSET, PI_TOO_MANY_PULSES, UnlistedCode}

\* What gpioWaveCreate returns: the identifier of a waveform that does not
\* exist yet, one of its four documented codes, or another negative code.
CreateCodes ==
    {i \in 0 .. MaxNativeWaves - 1 : Wide(i) \notin nativeWaves}
        \cup {PI_EMPTY_WAVEFORM, PI_TOO_MANY_CBS, PI_TOO_MANY_OOL,
              PI_NO_WAVEFORM_ID, UnlistedCode}

\* What gpioWaveTxSend returns for identifier `id`.
TxSendCodes(id) ==
    IF id \in nativeWaves THEN {1, PI_BAD_WAVE_MODE} ELSE {PI_BAD_WAVE_ID}

\* ------------------------------------------------- operations on a PiGpio

\* A &PiGpio exists: some thread owns the handle.
HandleExists == \E t \in Threads : held[t] >= 1

\* One native call as the operation made it.
Call(fn, args, code) == [fn |-> fn, args |-> args, ret |-> code]

\* What `last` keeps of an operation; `handle` is the index in `waves` of
\* the Wave it constructed, 0 if none.
Op(op, args, calls, res, handle) ==
    [op |-> op, args |-> args, calls |-> calls, result |-> res,
     handle |-> handle]

PinArgs == {4, 54}

set_mode(pin, mode, code) ==
    /\ HandleExists
    /\ last' = Op("set_mode", <<pin, mode>>,
                  <<Call("gpioSetMode", <<U8IntoU32(pin), PinMode(mode)>>, code)>>,
                  Outcome(SetMode_from_return_code(code)), 0)
    /\ UNCHANGED <<nativeWaves, waves, deleteLog>>
    /\ UNCHANGED initVars

\* gpioWaveClear deletes all waveforms (the doc comment of wave_clear).
wave_clear ==
    /\ HandleExists
    /\ nativeWaves' = {}
    /\ last' = Op("wave_clear", <<>>, <<Call("gpioWaveClear", <<>>, 0)>>,
                  "Ok", 0)
    /\ UNCHANGED <<waves, deleteLog>>
    /\ UNCHANGED initVars

\* The lengths of the pulse slices tried: 0, 2, 2^32 - 1, 2^32, 2^32 + 2.
PulseLens == {Wide(0), Wide(2), U32_MAX, <<Limb, 0>>, <<Limb, 2>>}

wave_add_generic_ge(len, code) ==
    /\ HandleExists
    /\ IF ~WideGt(U32_MAX, AsU64(len))
          THEN last' = Op("wave_add_generic", <<len>>, <<>>, "TooManyPulses", 0)
          ELSE last' = Op("wave_add_generic", <<len>>,
                          <<Call("gpioWaveAddGeneric", <<AsU32(len)>>, code)>>,
                          IF code # PI_TOO_MANY_PULSES THEN "Ok"
                          ELSE "TooManyPulses", 0)
    /\ UNCHANGED <<nativeWaves, waves, deleteLog>>
    /\ UNCHANGED initVars

wave_add_generic(len, code) ==
    /\ HandleExists
    /\ IF WideGt(AsU64(len), AsU64(U32_MAX))
          THEN last' = Op("wave_add_generic", <<len>>, <<>>, "TooManyPulses", 0)
          ELSE last' = Op("wave_add_generic", <<len>>,
                          <<Call("gpioWaveAddGeneric", <<AsU32(len)>>, code)>>,
                          IF code # PI_TOO_MANY_PULSES THEN "Ok"
                          ELSE "TooManyPulses", 0)
    /\ UNCHANGED <<nativeWaves, waves, deleteLog>>
    /\ UNCHANGED initVars

\* The byte slices tried: their length and their first bytes (all of them
\* when the slice is short).
Slices ==
    {[len |-> Wide(0), head |-> <<>>],
     [len |-> Wide(2), head |-> <<65, 66>>],
     [len |-> U32_MAX, head |-> <<65, 66>>],
     [len |-> <<Limb, 0>>, head |-> <<65, 66>>]}

\* The other arguments tried: pin, baud, data_bits, stop_bits, offset.
SerialArgs ==
    {<<4, Wide(9600), 8, 2, Wide(0)>>, <<255, Wide(115200), 9, 1, Wide(5)>>}

wave_add_serial(a, data, code) ==
    /\ HandleExists
    /\ IF WideGt(AsU64(data.len), AsU64(U32_MAX))
          THEN last' = Op("wave_add_serial", <<a, data>>, <<>>, "TooManyBytes", 0)
          ELSE last' = Op("wave_add_serial", <<a, data>>,
                          <<Call("gpioWaveAddSerial",
                                 <<U8IntoU32(a[1]), a[2], U8IntoU32(a[3]),
                                   U8IntoU32(a[4]), a[5], AsU32(data.len),
                                   data.head>>, code)>>,
                          Outcome(BadSerial_from_return_code(code)), 0)
    /\ UNCHANGED <<nativeWaves, waves, deleteLog>>
    /\ UNCHANGED initVars

\* gpioWaveCreate returns `code`, creating the waveform when the code is an
\* identifier; wave_create wraps every code from_return_code lets through.
wave_create(code) ==
    /\ HandleExists
    /\ Len(waves) < MaxWaveHandles
    /\ nativeWaves' = IF code >= 0 THEN nativeWaves \cup {Wide(code)}
                      ELSE nativeWaves
    /\ LET r == WaveCreate_from_return_code(code) IN
         IF r.ok
            THEN /\ waves' = Append(waves, [id |-> I32AsU32(r.val), live |-> TRUE])
                 /\ last' = Op("wave_create", <<>>,
                               <<Call("gpioWaveCreate", <<>>, code)>>, "Ok",
                               Len(waves) + 1)
            ELSE /\ waves' = waves
                 /\ last' = Op("wave_create", <<>>,
                               <<Call("gpioWaveCreate", <<>>, code)>>, r.err, 0)
    /\ UNCHANGED deleteLog
    /\ UNCHANGED initVars

wave_tx_busy(code) ==
    /\ HandleExists
    /\ last' = Op("wave_tx_busy", <<>>, <<Call("gpioWaveTxBusy", <<>>, code)>>,
                  IF code # 0 THEN "true" ELSE "false", 0)
    /\ UNCHANGED <<nativeWaves, waves, deleteLog>>
    /\ UNCHANGED initVars

\* ---------------------------------------------------- operations on a Wave

tx_send(h, mode, code) ==
    /\ waves[h].live
    /\ last' = Op("tx_send", <<h, mode>>,
                  <<Call("gpioWaveTxSend", <<waves[h].id, sync(mode)>>, code)>>,
                  Outcome(WaveSend_from_return_code(code)), 0)
    /\ UNCHANGED <<nativeWaves, waves, deleteLog>>
    /\ UNCHANGED initVars

\* Drop for Wave: gpioWaveDelete(self.id), whose return value is ignored.
Wave_drop_without_delete(h) ==
    /\ waves[h].live
    /\ waves' = [waves EXCEPT ![h].live = FALSE]
    /\ last' = Op("drop", <<h>>, <<>>, "Ok", 0)
    /\ UNCHANGED <<nativeWaves, deleteLog>>
    /\ UNCHANGED initVars

Wave_drop(h) ==
    /\ waves[h].live
    /\ waves' = [waves EXCEPT ![h].live = FALSE]
    /\ nativeWaves' = nativeWaves \ {waves[h].id}
    /\ deleteLog' = Append(deleteLog, waves[h].id)
    /\ last' = Op("drop", <<h>>,
                  <<Call("gpioWaveDelete", <<waves[h].id>>, 0)>>, "Ok", 0)
    /\ UNCHANGED initVars

\* The state in which init() has just returned Ok(PiGpio) to thread 1.
InitWave ==
    /\ REF_COUNT = 1
    /\ pc = [t \in Threads |-> "idle"]
    /\ result = [t \in Threads |-> IF t = 1 THEN "Ok" ELSE "none"]
    /\ held = [t \in Threads |-> IF t = 1 THEN 1 ELSE 0]
    /\ ret = [t \in Threads |-> IF t = 1 THEN 79 ELSE 0]
    /\ ctx = [t \in Threads |-> NoCtx]
    /\ started = 1
    /\ issued = 1
    /\ nativeInits = 1
    /\ nativeFails = 0
    /\ dropped = 0
    /\ aiSeen = FALSE
    /\ retryOpen = FALSE
    /\ nativeWaves = {}
    /\ waves = <<>>
    /\ deleteLog = <<>>
    /\ last = NoOp

\* The arguments of the scenario of the specification's section 8.
ScenarioArgs == <<4, Wide(9600), 8, 2, Wide(0)>>
ScenarioData == [len |-> Wide(2), head |-> <<65, 66>>]

\* Every operation on the PiGpio and on its Waves, in any order; the calls
\* that only translate a return code are made with one set of arguments here,
\* and with every set of arguments in NextCalls.
NextWave ==
    \/ \E code \in SetModeCodes : set_mode(4, "Output", code)
    \/ wave_clear
    \/ \E code \in {7, PI_TOO_MANY_PULSES} : wave_add_generic(Wide(2), code)
    \/ \E code \in {7, PI_BAD_DATABITS} :
          wave_add_serial(ScenarioArgs, ScenarioData, code)
    \/ \E code \in CreateCodes : wave_create(code)
    \/ \E code \in {0, 1} : wave_tx_busy(code)
    \/ \E h \in 1 .. Len(waves) : \E mode \in WaveModes :
          \E code \in TxSendCodes(waves[h].id) : tx_send(h, mode, code)
    \/ \E h \in 1 .. Len(waves) : Wave_drop(h)

\* The calls that stage data or set a pin, with every argument and every
\* native return code tried.
NextCalls ==
    \/ \E pin \in PinArgs : \E mode \in PinModes : \E code \in SetModeCodes :
          set_mode(pin, mode, code)
    \/ \E len \in PulseLens : \E code \in AddGenericCodes :
          wave_add_generic(len, code)
    \/ \E a \in SerialArgs : \E data \in Slices : \E code \in AddSerialCodes :
          wave_add_serial(a, data, code)
    \/ \E code \in {0, 1} : wave_tx_busy(code)

SpecCalls == InitWave /\ [][NextCalls]_vars

SpecWave == InitWave /\ [][NextWave]_vars

\* ------------------------------------------------- claims on PiGpio::init

\* C1: whatever the interleaving of init() calls and the outcomes of
\* gpioInitialise, at most one init() call ever returns Ok(PiGpio), so at no
\* time do two PiGpio values exist.
C1_AtMostOneHandle ==
    /\ issued <= 1
    /\ \A t \in Threads : held[t] <= 1
    /\ Cardinality({t \in Threads : held[t] >= 1}) <= 1

\* C1 witness: a handle was issued in a run in which a native initialisation
\* also failed and another call was turned away.
C1_Witness == issued = 1 /\ nativeFails >= 1 /\ aiSeen

\* C2: at most one thread at a time is between winning the compare-and-swap
\* and the return of gpioInitialise.
C2_OneNativeInitAtATime ==
    Cardinality({t \in Threads : pc[t] = "native"}) <= 1

\* C2 witness: one thread is inside the native call and another thread's
\* init() has meanwhile been turned away.
C2_Witness ==
    \E t, u \in Threads :
        /\ t # u
        /\ pc[t] = "native"
        /\ result[u] = "AlreadyInitialized"
        /\ issued = 0

\* C3: once an init() call has returned a handle, REF_COUNT stays 1 and every
\* init() call that starts afterwards returns AlreadyInitialized at once,
\* without calling gpioInitialise, also after the handle was dropped.
C3_SecondInitAlwaysRefused ==
    /\ issued >= 1 => REF_COUNT = 1
    /\ \A t \in Threads :
          ctx[t].afterOk =>
              /\ pc[t] = "idle"
              /\ result[t] = "AlreadyInitialized"
              /\ ret[t] = 0

\* C3 witness: a call that started after the handle had been issued and
\* dropped was refused.
C3_Witness ==
    \E t \in Threads :
        /\ ctx[t].afterOk
        /\ ctx[t].afterDrop
        /\ result[t] = "AlreadyInitialized"
        /\ dropped = 1

\* C4: when gpioInitialise returns PI_INIT_FAILED, init() returns PiGpioFailed
\* and leaves REF_COUNT at 0; the next init() call started after that return
\* calls gpioInitialise again and returns a handle if that call succeeds.
C4_FailureRollsBack ==
    /\ retryOpen => REF_COUNT = 0
    /\ \A t \in Threads :
          /\ pc[t] = "rollback" => ret[t] = PI_INIT_FAILED
          /\ (pc[t] = "idle" /\ ret[t] = PI_INIT_FAILED) =>
                 result[t] = "PiGpioFailed"
          /\ result[t] = "PiGpioFailed" => ret[t] = PI_INIT_FAILED
          /\ ctx[t].afterFail =>
                 \/ pc[t] = "native" /\ ret[t] = 0
                 \/ ret[t] = PI_INIT_FAILED
                 \/ ret[t] \notin {0, PI_INIT_FAILED} /\ result[t] = "Ok"

\* C4 witness: the call that followed a failed initialisation got the handle.
C4_Witness ==
    \E t \in Threads :
        /\ ctx[t].afterFail
        /\ result[t] = "Ok"
        /\ held[t] = 1
        /\ nativeFails >= 1

\* C5 (as claimed): once some init() call has returned AlreadyInitialized, no
\* init() call started later returns a handle.
C5_AlreadyInitializedNeverRetryable ==
    \A t \in Threads : result[t] = "Ok" => ~ctx[t].afterAI

\* ------------------------------------------- claims on the wave operations

Released == {h \in 1 .. Len(waves) : ~waves[h].live}

\* How many times gpioWaveDelete was called with identifier `id`.
Deletes(id) == Cardinality({i \in 1 .. Len(deleteLog) : deleteLog[i] = id})

\* C6: gpioWaveDelete is called once for every Wave that wave_create()
\* returned and that has been dropped, with the identifier the Wave stored,
\* and it is called by nothing but the drop of a Wave: never by a
\* wave_create() that returned an error.
C6_DeleteOncePerWave ==
    /\ Len(deleteLog) = Cardinality(Released)
    /\ \A h \in 1 .. Len(waves) :
          Deletes(waves[h].id) =
              Cardinality({g \in Released : waves[g].id = waves[h].id})
    /\ \A i \in 1 .. Len(last.calls) :
          last.calls[i].fn = "gpioWaveDelete" =>
              /\ last.op = "drop"
              /\ Len(last.calls) = 1
              /\ last.calls[i].args = <<waves[last.args[1]].id>>
    /\ last.op = "drop" => Len(last.calls) = 1
    /\ (last.op = "wave_create" /\ last.result # "Ok") => last.handle = 0

\* C6 witness: one Wave is alive, another was dropped (one gpioWaveDelete
\* call, with its identifier), and a wave_create() has just failed.
C6_Witness ==
    /\ Len(waves) = 2
    /\ waves[1].live
    /\ ~waves[2].live
    /\ deleteLog = <<waves[2].id>>
    /\ last.op = "wave_create"
    /\ last.result = "TooManyCbs"

\* C7 (as claimed): every Wave that has not been dropped and that was built
\* from a waveform identifier holds the identifier of a waveform that still
\* exists in the native library; wave_clear() in particular leaves no Wave
\* behind whose waveform is gone.
C7_LiveWaveHasLiveWaveform ==
    \A h \in 1 .. Len(waves) :
        (waves[h].live /\ waves[h].id \in NativeIds) =>
            waves[h].id \in nativeWaves

\* C8: wave_add_generic with more than 2^32 - 1 pulses returns TooManyPulses
\* and calls nothing; with at most 2^32 - 1 it calls gpioWaveAddGeneric once
\* with that length, and returns TooManyPulses exactly when the call returned
\* PI_TOO_MANY_PULSES, Ok otherwise.
C8_AddGenericContract ==
    last.op = "wave_add_generic" =>
        LET len == last.args[1] IN
        IF len[1] >= 2 ^ 16
           THEN /\ last.result = "TooManyPulses"
                /\ last.calls = <<>>
           ELSE /\ Len(last.calls) = 1
                /\ last.calls[1].fn = "gpioWaveAddGeneric"
                /\ last.calls[1].args = <<len>>
                /\ last.result \in {"Ok", "TooManyPulses"}
                /\ last.result = "TooManyPulses" <=>
                       last.calls[1].ret = PI_TOO_MANY_PULSES

\* C8 witness: a slice of 2^32 pulses was refused without a native call.
C8_Witness ==
    /\ last.op = "wave_add_generic"
    /\ last.args[1] = <<2 ^ 16, 0>>
    /\ last.calls = <<>>
    /\ last.result = "TooManyPulses"

\* C9 (as claimed): for every code gpioWaveCreate returns, wave_create()
\* returns the matching error and builds no Wave when the code is one of the
\* four sentinels, and otherwise the code is non-negative and the Wave built
\* stores it: no Wave is built from a negative code.
C9_NoWaveFromNegativeCode ==
    last.op = "wave_create" =>
        LET code == last.calls[1].ret IN
        CASE code = PI_EMPTY_WAVEFORM ->
                 last.result = "EmptyWaveform" /\ last.handle = 0
          [] code = PI_TOO_MANY_CBS ->
                 last.result = "TooManyCbs" /\ last.handle = 0
          [] code = PI_TOO_MANY_OOL ->
                 last.result = "TooManyOol" /\ last.handle = 0
          [] code = PI_NO_WAVEFORM_ID ->
                 last.result = "NoWaveformId" /\ last.handle = 0
          [] OTHER ->
                 /\ code >= 0
                 /\ last.result = "Ok"
                 /\ last.handle = Len(waves)
                 /\ waves[last.handle].id = <<0, code>>

\* The BadSerial variant the claim gives for a native return code.
C10_Expected(code) ==
    CASE code = -2 -> "InvalidPin"
      [] code = -35 -> "InvalidBaud"
      [] code = -101 -> "InvalidDataBits"
      [] code = -102 -> "InvalidStopBits"
      [] code = -37 -> "TooManyBytes"
      [] code = -49 -> "InvalidOffset"
      [] code = -36 -> "TooManyPulses"
      [] OTHER -> "Ok"

\* C10: wave_add_serial with more than 2^32 - 1 bytes returns TooManyBytes
\* and calls nothing; otherwise it calls gpioWaveAddSerial once with the
\* arguments, the exact byte count and the bytes unchanged, and translates
\* the seven sentinels to their variants and every other code to Ok.
C10_AddSerialContract ==
    last.op = "wave_add_serial" =>
        LET a == last.args[1]
            data == last.args[2]
        IN  IF data.len[1] >= 2 ^ 16
               THEN /\ last.result = "TooManyBytes"
                    /\ last.calls = <<>>
               ELSE /\ Len(last.calls) = 1
                    /\ last.calls[1].fn = "gpioWaveAddSerial"
                    /\ last.calls[1].args =
                           <<<<0, a[1]>>, a[2], <<0, a[3]>>, <<0, a[4]>>, a[5],
                             data.len, data.head>>
                    /\ last.result = C10_Expected(last.calls[1].ret)

\* C10 witness: the scenario of the specification: pin 4, 9600 baud, 8 data
\* bits, 2 stop bits, offset 0, bytes 0x41 0x42, native "bad databits".
C10_Witness ==
    /\ last.op = "wave_add_serial"
    /\ last.args = <<ScenarioArgs, ScenarioData>>
    /\ Len(last.calls) = 1
    /\ last.calls[1].ret = PI_BAD_DATABITS
    /\ last.calls[1].args[6] = <<0, 2>>
    /\ last.calls[1].args[7] = <<65, 66>>
    /\ last.result = "InvalidDataBits"

====
